---- MODULE Spec2Model ----
(***************************************************************************)
(* The Python binding of safetensors (bindings/python/src/lib.rs):         *)
(* prepare, serialize, serialize_file, deserialize and deserialize_file,   *)
(* together with the container format they call into.  The binding is      *)
(* modelled from its source.  The format engine it calls                   *)
(* (Tensor::new, SafeTensor::serialize, SafeTensor::serialize_to_file,     *)
(* SafeTensorBorrowed::deserialize, Dtype) lives in the safetensors crate; *)
(* it is modelled from the specification (sections 3, 4, 6 and 7).         *)
(*                                                                         *)
(* A byte buffer is a sequence of naturals.  Units 1..8 are the bytes of   *)
(* the little-endian length prefix N, the next N units are the header, one *)
(* unit per tensor entry (the entry's fields packed into one number by     *)
(* EncodeEntry), and the remaining units are the bytes of the data         *)
(* section.  The optional metadata block is not modelled: the binding      *)
(* never passes one.                                                       *)
(***************************************************************************)
EXTENDS Integers, Sequences, FiniteSets, TLC

\* ------------------------------------------------------------------ bounds

\* Dimension extents offered by callers are 0..MaxDim.
MaxDim == 2

\* ------------------------------------------------------------- basic sets

\* Tensor names used by callers.
Names == {"a", "b"}

\* The order in which names are packed into header units.
NameList == <<"a", "b">>

\* The Dtype variants the binding names (lib.rs:27-29).
Dtype == {"Dtype::F32", "Dtype::F64", "Dtype::I32"}

\* Default dtype of a description without a "dtype" key (lib.rs:18).
DefaultDtype == "Dtype::F32"

\* Outcome of the unimplemented!() arm (lib.rs:30-32).
Panic == "panic"

\* `match value` of prepare (lib.rs:26-33): the dtype strings prepare accepts.
ParseDtype(value) ==
  CASE value = "float32" -> "Dtype::F32"
    [] value = "float64" -> "Dtype::F64"
    [] value = "int32" -> "Dtype::I32"
    [] OTHER -> Panic

\* format!("{:?}", tensor.dtype) (lib.rs:80): the variant's name.
DebugName(dtype) ==
  CASE dtype = "Dtype::F32" -> "F32"
    [] dtype = "Dtype::F64" -> "F64"
    [] dtype = "Dtype::I32" -> "I32"

\* Dtype Registry, byte_width (spec 4.1).
ByteWidth(dtype) ==
  CASE dtype = "Dtype::F32" -> 4
    [] dtype = "Dtype::F64" -> 8
    [] dtype = "Dtype::I32" -> 4

\* Dtype Registry, canonical_name (spec 4.1): the name written to the header.
CanonicalName(dtype) ==
  CASE dtype = "Dtype::F32" -> "F32"
    [] dtype = "Dtype::F64" -> "F64"
    [] dtype = "Dtype::I32" -> "I32"

\* Marks a header dtype name that is not registered.
NoDtype == "Dtype::?"

\* Dtype Registry, parse (spec 4.1): the inverse of canonical_name.
RegistryParse(name) ==
  CASE name = "F32" -> "Dtype::F32"
    [] name = "F64" -> "Dtype::F64"
    [] name = "I32" -> "Dtype::I32"
    [] OTHER -> NoDtype

\* Shape, element count (spec 3): the product of the entries, 1 when empty.
RECURSIVE ElementCount(_)
ElementCount(shape) ==
  IF shape = <<>> THEN 1 ELSE Head(shape) * ElementCount(Tail(shape))

\* Tensor Descriptor byte length implied by shape and dtype (spec 3).
ByteSize(dtype, shape) == ElementCount(shape) * ByteWidth(dtype)

\* Tensor::new(data, dtype, shape) (lib.rs:40): an infallible constructor.
NewTensor(data, dtype, shape) == [data |-> data, dtype |-> dtype, shape |-> shape]

\* ---------------------------------------------------- length prefix codec

\* The 8-byte unsigned little-endian length prefix (spec 4.2, 6).
RECURSIVE LEBytes(_, _)
LEBytes(n, k) ==
  IF k = 0 THEN <<>> ELSE <<n % 256>> \o LEBytes(n \div 256, k - 1)

\* Values of the prefix at or above this are larger than any buffer here.
Huge == 256 * 256 * 256

\* Reading the prefix back; saturates at Huge instead of leaving the integers.
RECURSIVE FromLE(_)
FromLE(bs) ==
  IF bs = <<>> THEN 0
  ELSE LET rest == FromLE(Tail(bs))
       IN  IF rest >= Huge \div 256 THEN Huge ELSE Head(bs) + 256 * rest

\* ------------------------------------------------------ header entry codec

\* Dtype names a header unit can carry; the last one is not registered.
HeaderDtypeNames == <<"F32", "F64", "I32", "C64">>

\* Radix of one packed dimension: extents -1..MaxDim, stored as extent + 1.
DimR == MaxDim + 2

\* Radix of a packed shape: rank 0..2 and two packed dimensions.
ShapeR == 3 * DimR * DimR

\* Radix of a packed offset: header offsets are below OffR.
OffR == 256

\* Position of x in the sequence s.
IndexOf(s, x) == CHOOSE i \in 1..Len(s) : s[i] = x

\* A shape of rank 0..2 packed into one number.
ShapeCode(shape) ==
  Len(shape)
  + 3 * ((IF Len(shape) >= 1 THEN shape[1] + 1 ELSE 0)
         + DimR * (IF Len(shape) >= 2 THEN shape[2] + 1 ELSE 0))

\* Header Codec, encoding of one entry {dtype name, shape, [start, end]}
\* under its tensor name (spec 4.2, 6) as one header unit above the bytes.
EncodeEntry(e) ==
  256 + (IndexOf(NameList, e.name) - 1)
      + Len(NameList) * ((IndexOf(HeaderDtypeNames, e.dtype) - 1)
      + Len(HeaderDtypeNames) * (ShapeCode(e.shape)
      + ShapeR * (e.start + OffR * e.end)))

\* The fields of a header unit, by division.
UnitFields(u) ==
  LET c0 == u - 256
      c1 == c0 \div Len(NameList)
      c2 == c1 \div Len(HeaderDtypeNames)
      sc == c2 % ShapeR
      c3 == c2 \div ShapeR
      dd == sc \div 3
  IN  [name |-> (c0 % Len(NameList)) + 1,
       dtype |-> (c1 % Len(HeaderDtypeNames)) + 1,
       rank |-> sc % 3,
       d1 |-> dd % DimR,
       d2 |-> dd \div DimR,
       start |-> c3 % OffR,
       end |-> c3 \div OffR]

\* Header Codec, structural check of one unit (spec 4.2, MalformedHeader):
\* a unit that is no packed entry is not valid structured text.
WellFormedUnit(u) ==
  /\ u >= 256
  /\ LET f == UnitFields(u)
     IN  /\ f.end < OffR
         /\ (f.rank < 1 => f.d1 = 0)
         /\ (f.rank < 2 => f.d2 = 0)

\* Header Codec, decoding of one well-formed unit (spec 4.2).
DecodeEntry(u) ==
  LET f == UnitFields(u)
  IN  [name |-> NameList[f.name],
       dtype |-> HeaderDtypeNames[f.dtype],
       shape |-> IF f.rank = 0 THEN <<>>
                 ELSE IF f.rank = 1 THEN <<f.d1 - 1>>
                 ELSE <<f.d1 - 1, f.d2 - 1>>,
       start |-> f.start,
       end |-> f.end]

\* ----------------------------------------------------------- serializer

\* Header Codec, encoding (spec 4.2): the entries of the tensors taken in
\* `order`, the first at offset `at`, each starting where the previous ends,
\* each range as long as element_count(shape) * byte_width(dtype).
RECURSIVE HeaderEntries(_, _, _)
HeaderEntries(tensors, order, at) ==
  IF order = <<>> THEN <<>>
  ELSE LET t == tensors[Head(order)]
           n == ByteSize(t.dtype, t.shape)
       IN  <<[name |-> Head(order), dtype |-> CanonicalName(t.dtype),
              shape |-> t.shape, start |-> at, end |-> at + n]>>
           \o HeaderEntries(tensors, Tail(order), at + n)

\* The data section (spec 4.2): the tensors' bytes concatenated in `order`.
RECURSIVE DataSection(_, _)
DataSection(tensors, order) ==
  IF order = <<>> THEN <<>>
  ELSE tensors[Head(order)].data \o DataSection(tensors, Tail(order))

\* SafeTensor::serialize(&tensors) (lib.rs:52; spec 4.2, 4.4): the length
\* prefix, the header, the data section.  `order` is the order in which the
\* HashMap hands out its entries.
CoreSerialize(tensors, order) ==
  LET entries == HeaderEntries(tensors, order, 0)
      header == [i \in 1..Len(entries) |-> EncodeEntry(entries[i])]
  IN  LEBytes(Len(header), 8) \o header \o DataSection(tensors, order)

\* --------------------------------------------------------- deserializer

\* The error kinds of the format engine (spec 7).
ErrorKinds ==
  {"TruncatedHeader", "HeaderTooLarge", "MalformedHeader", "UnsupportedDtype",
   "InvalidShape", "InvalidOffsets", "SizeMismatch", "OffsetsNotContiguous",
   "DuplicateName"}

\* The kinds the specification gives a declared header length that runs
\* past the end of the buffer: HeaderTooLarge (spec 4.2) and TruncatedHeader
\* (spec 7, 8).
OverrunKinds == {"TruncatedHeader", "HeaderTooLarge"}

\* A failed deserialization.
CoreErr(kind) == [kind |-> "err", error |-> kind, n |-> 0, tensors |-> <<>>]

\* Validation Engine, the checks (a)-(d) of one entry (spec 4.3), in order.
ValidateEntry(e, dataLen) ==
  IF RegistryParse(e.dtype) = NoDtype THEN "UnsupportedDtype"
  ELSE IF \E i \in 1..Len(e.shape) : e.shape[i] < 0 THEN "InvalidShape"
  ELSE IF ~(e.start <= e.end /\ e.end <= dataLen) THEN "InvalidOffsets"
  ELSE IF e.end - e.start # ByteSize(RegistryParse(e.dtype), e.shape)
       THEN "SizeMismatch"
  ELSE "ok"

\* Validation Engine over every entry (spec 4.3): the first failure.
RECURSIVE ValidateEntries(_, _)
ValidateEntries(entries, dataLen) ==
  IF entries = <<>> THEN "ok"
  ELSE LET v == ValidateEntry(Head(entries), dataLen)
       IN  IF v # "ok" THEN v ELSE ValidateEntries(Tail(entries), dataLen)

\* Order of two entries by start offset, then by end offset.
Before(e, f) == e.start < f.start \/ (e.start = f.start /\ e.end <= f.end)

\* Insertion of an entry into a sequence sorted by Before.
RECURSIVE InsertSorted(_, _)
InsertSorted(e, sorted) ==
  IF sorted = <<>> THEN <<e>>
  ELSE IF Before(e, Head(sorted)) THEN <<e>> \o sorted
  ELSE <<Head(sorted)>> \o InsertSorted(e, Tail(sorted))

\* Validation Engine: the entries sorted by start offset (spec 4.3).
RECURSIVE SortByStart(_)
SortByStart(entries) ==
  IF entries = <<>> THEN <<>>
  ELSE InsertSorted(Head(entries), SortByStart(Tail(entries)))

\* Validation Engine, global consistency under strict contiguity (spec 4.3,
\* 6): the sorted ranges tile the data section.
Contiguous(entries, dataLen) ==
  LET s == SortByStart(entries)
  IN  IF s = <<>> THEN dataLen = 0
      ELSE /\ s[1].start = 0
           /\ \A i \in 1..(Len(s) - 1) : s[i + 1].start = s[i].end
           /\ s[Len(s)].end = dataLen

\* Tensor-view construction (spec 4.5): the zero-copy slice of `bytes` at a
\* validated range of the data section, which begins after 8 + n units.
View(bytes, n, e) ==
  [name |-> e.name, dtype |-> RegistryParse(e.dtype), shape |-> e.shape,
   start |-> e.start, end |-> e.end,
   data |-> SubSeq(bytes, 8 + n + e.start + 1, 8 + n + e.end)]

\* SafeTensorBorrowed::deserialize(bytes) (lib.rs:71; spec 4.2, 4.3, 4.5).
\* `overrun` is the kind reported for a declared length past the buffer.
\* The sanity ceiling of spec 4.2 is left out: the specification gives it
\* no value, and every buffer here is far below any.
CoreDeserialize(bytes, overrun) ==
  IF Len(bytes) < 8 THEN CoreErr("TruncatedHeader")
  ELSE LET n == FromLE(SubSeq(bytes, 1, 8))
       IN  IF n > Len(bytes) - 8 THEN CoreErr(overrun)
           ELSE LET units == SubSeq(bytes, 9, 8 + n)
                    dataLen == Len(bytes) - 8 - n
                IN  IF \E i \in 1..n : ~WellFormedUnit(units[i])
                    THEN CoreErr("MalformedHeader")
                    ELSE LET entries == [i \in 1..n |-> DecodeEntry(units[i])]
                             v == ValidateEntries(entries, dataLen)
                         IN  IF \E i, j \in 1..n :
                                  i # j /\ entries[i].name = entries[j].name
                             THEN CoreErr("DuplicateName")
                             ELSE IF v # "ok" THEN CoreErr(v)
                             ELSE IF ~Contiguous(entries, dataLen)
                                  THEN CoreErr("OffsetsNotContiguous")
                             ELSE [kind |-> "ok", error |-> "", n |-> n,
                                   tensors |-> [i \in 1..n |->
                                                View(bytes, n, entries[i])]]

\* ---------------------------------------------------------------- prepare

\* The keys of a description in the order the caller's dict holds them.
KeyOrder == <<"shape", "dtype", "data", "device">>

\* The locals of one turn of prepare's outer loop (lib.rs:17-19).
Defaults == [shape |-> <<>>, dtype |-> DefaultDtype, data |-> <<>>, fail |-> "none"]

\* One arm of `match key` (lib.rs:22-37).  A negative extent does not
\* extract to Vec<usize> and `?` returns the PyErr; an unknown dtype string
\* reaches unimplemented!(); an unknown key is printed and ignored.
PrepareKey(key, desc, acc) ==
  CASE key = "shape" ->
         IF \E i \in 1..Len(desc.shape) : desc.shape[i] < 0
         THEN [acc EXCEPT !.fail = "pyerr"]
         ELSE [acc EXCEPT !.shape = desc.shape]
    [] key = "dtype" ->
         IF ParseDtype(desc.dtype) = Panic
         THEN [acc EXCEPT !.fail = Panic]
         ELSE [acc EXCEPT !.dtype = ParseDtype(desc.dtype)]
    [] key = "data" -> [acc EXCEPT !.data = desc.data]
    [] OTHER -> acc

\* The inner loop over one description's keys (lib.rs:20-38).
RECURSIVE PrepareKeys(_, _, _)
PrepareKeys(keys, desc, acc) ==
  IF keys = <<>> \/ acc.fail # "none" THEN acc
  ELSE PrepareKeys(Tail(keys), desc,
                   IF Head(keys) \in desc.keys
                   THEN PrepareKey(Head(keys), desc, acc) ELSE acc)

\* prepare's outer loop (lib.rs:16-42) over the entries of tensor_dict in
\* the order `order` its HashMap yields them: `tensors` are those inserted
\* so far; a failure ends the loop.
RECURSIVE PrepareLoop(_, _, _)
PrepareLoop(tensor_dict, order, tensors) ==
  IF order = <<>> THEN [fail |-> "none", tensors |-> tensors]
  ELSE LET r == PrepareKeys(KeyOrder, tensor_dict[Head(order)], Defaults)
       IN  IF r.fail # "none" THEN [fail |-> r.fail, tensors |-> tensors]
           ELSE PrepareLoop(tensor_dict, Tail(order),
                            (Head(order) :> NewTensor(r.data, r.dtype, r.shape))
                              @@ tensors)

\* prepare(py, tensor_dict) (lib.rs:10-44).
Prepare(tensor_dict, order) == PrepareLoop(tensor_dict, order, <<>>)

\* ----------------------------------------------------------------- inputs

\* The orders in which a HashMap over the keys S can be iterated.
Orders(S) ==
  {o \in [1..Cardinality(S) -> S] : \A i, j \in 1..Cardinality(S) : o[i] = o[j] => i = j}

\* The bytes a caller supplies for the tensor `name`: `len` bytes that tell
\* the tensor and the position apart.
DataFor(name, len) == [i \in 1..len |-> (64 * IndexOf(NameList, name) + i) % 256]

\* Shapes offered by callers; the last does not extract to Vec<usize>.
CallerShapes ==
  {<<>>} \cup {<<d>> : d \in 0..MaxDim}
         \cup {<<d, e>> : d, e \in 0..MaxDim} \cup {<<-1>>}

\* Dtype strings offered by callers; the last is not one prepare matches.
CallerDtypes == {"float32", "float64", "int32", "float16"}

\* The byte length a description's shape and dtype call for.
Expected(shape, dtype) ==
  IF \E i \in 1..Len(shape) : shape[i] < 0 THEN 0
  ELSE ByteSize(IF ParseDtype(dtype) = Panic THEN DefaultDtype ELSE ParseDtype(dtype),
                shape)

\* Data lengths offered for a shape and dtype: exact, one short, one long.
DataLens(shape, dtype) ==
  {n \in {Expected(shape, dtype) - 1, Expected(shape, dtype),
          Expected(shape, dtype) + 1} : n >= 0}

\* The keys a caller may put in a description; "device" is one prepare
\* does not know.
CallerKeys == {"shape", "dtype", "data", "device"}

\* A description with the keys k; an absent key's field is the empty value.
Desc(name, k, s, d, n) ==
  [keys |-> k,
   shape |-> IF "shape" \in k THEN s ELSE <<>>,
   dtype |-> IF "dtype" \in k THEN d ELSE "",
   data |-> IF "data" \in k THEN DataFor(name, n) ELSE <<>>]

\* The descriptions a caller passes for the tensor `name`.
Descs(name) ==
  UNION {{Desc(name, k, s, d, n) :
            n \in DataLens(IF "shape" \in k THEN s ELSE <<>>,
                           IF "dtype" \in k THEN d ELSE "")} :
         k \in SUBSET CallerKeys, s \in CallerShapes, d \in CallerDtypes}

\* The descriptions used in dictionaries of two tensors: the three known
\* keys, rank at most 1, data exact or one short.
PairDescs(name) ==
  {x \in Descs(name) :
     /\ x.keys = {"shape", "dtype", "data"}
     /\ Len(x.shape) <= 1
     /\ Len(x.data) <= Expected(x.shape, x.dtype)}

\* The tensor dictionaries callers pass to serialize and serialize_file.
CallerDicts ==
  {<<>>} \cup UNION {{n :> x : x \in Descs(n)} : n \in Names}
         \cup {("a" :> x) @@ ("b" :> y) : x \in PairDescs("a"), y \in PairDescs("b")}

\* File names: the second lies in a directory that does not exist.
Filenames == {"model.safetensors", "nodir/model.safetensors"}

\* Whether a file of this name can be created or opened.
Reachable(filename) == filename = "model.safetensors"

\* Item with the shape's extents pushed in reverse.
ItemReversedShape(tensor) ==
  [name |-> tensor.name,
   shape |-> [i \in 1..Len(tensor.shape) |-> tensor.shape[Len(tensor.shape) + 1 - i]],
   dtype |-> DebugName(tensor.dtype), data |-> tensor.data]

\* The tuple (tensor_name, map) pushed by deserialize (lib.rs:77-87).
Item(tensor) ==
  [name |-> tensor.name, shape |-> tensor.shape,
   dtype |-> DebugName(tensor.dtype), data |-> tensor.data]

\* The dictionary a caller builds from what deserialize returned, to hand
\* it back to serialize.
RECURSIVE DictOf(_)
DictOf(its) ==
  IF its = <<>> THEN <<>>
  ELSE (Head(its).name :> [keys |-> {"shape", "dtype", "data"},
                           shape |-> Head(its).shape,
                           dtype |-> Head(its).dtype,
                           data |-> Head(its).data])
       @@ DictOf(Tail(its))

\* ------------------------------------------------------------------ state

VARIABLES
  pc,           \* "idle", or "loop" inside deserialize's loop (lib.rs:76-88)
  tensor_dict,  \* the dictionary of the last serialize / serialize_file call
  dict_src,     \* "caller", or "items" when built from deserialize's result
  tensors,      \* the HashMap built by prepare in that call
  order,        \* the order in which that HashMap was iterated
  out,          \* outcome of the call: op, kind, and the bytes returned
  fs,           \* the file model.safetensors: whether it exists, its content
  bytes,        \* the buffer of the last deserialize call
  src,          \* where that buffer came from: "out", "file", "fuzz"
  safetensor,   \* what SafeTensorBorrowed::deserialize returned
  pending,      \* the tensors the loop has yet to visit
  items,        \* deserialize's local `items`
  result        \* outcome of the deserialize call

vars ==
  <<pc, tensor_dict, dict_src, tensors, order, out, fs, bytes, src,
    safetensor, pending, items, result>>

serVars == <<tensor_dict, dict_src, tensors, order, out, fs>>

NoResult == [kind |-> "none", error |-> "", items |-> <<>>]

NoSafetensor == [kind |-> "none", error |-> "", n |-> 0, tensors |-> <<>>]

Init ==
  /\ pc = "idle"
  /\ tensor_dict = <<>>
  /\ dict_src = "none"
  /\ tensors = <<>>
  /\ order = <<>>
  /\ out = [op |-> "none", kind |-> "none", bytes |-> <<>>]
  /\ fs = [exists |-> FALSE, content |-> <<>>]
  /\ bytes = <<>>
  /\ src = "none"
  /\ safetensor = NoSafetensor
  /\ pending = <<>>
  /\ items = <<>>
  /\ result = NoResult

\* -------------------------------------------------------------- serialize

\* What a session passes to serialize: a caller's dictionary when it is
\* the first of the session, the same dictionary again, or the dictionary
\* built from what deserialize returned.
SessionDicts ==
  IF out.kind = "none" THEN {<<"caller", d>> : d \in CallerDicts}
  ELSE {<<dict_src, tensor_dict>>}
       \cup (IF result.kind = "ok" THEN {<<"items", DictOf(result.items)>>} ELSE {})

\* A new call forgets the last deserialize call.
ForgetDeserialize ==
  /\ bytes' = <<>>
  /\ src' = "none"
  /\ safetensor' = NoSafetensor
  /\ pending' = <<>>
  /\ items' = <<>>
  /\ result' = NoResult

\* serialize(py, tensor_dict) (lib.rs:46-55).  o1 and o2 are the orders in
\* which the HashMaps tensor_dict and tensors are iterated.
Serialize(d, s, o1, o2) ==
  /\ pc = "idle"
  /\ LET p == Prepare(d, o1)
     IN  /\ tensor_dict' = d
         /\ dict_src' = s
         /\ tensors' = p.tensors
         /\ order' = IF p.fail = "none" THEN o2 ELSE <<>>
         /\ out' = IF p.fail # "none"
                   THEN [op |-> "serialize", kind |-> p.fail, bytes |-> <<>>]
                   ELSE [op |-> "serialize", kind |-> "ok",
                         bytes |-> CoreSerialize(p.tensors, o2)]
  /\ pc' = pc
  /\ fs' = fs
  /\ ForgetDeserialize

\* serialize_file(py, tensor_dict, filename) (lib.rs:58-66): `?` returns the
\* io error of a file that cannot be created.
SerializeFile(d, s, filename, o1, o2) ==
  /\ pc = "idle"
  /\ LET p == Prepare(d, o1)
         kind == IF p.fail # "none" THEN p.fail
                 ELSE IF ~Reachable(filename) THEN "ioerr" ELSE "ok"
     IN  /\ tensor_dict' = d
         /\ dict_src' = s
         /\ tensors' = p.tensors
         /\ order' = IF p.fail = "none" THEN o2 ELSE <<>>
         /\ out' = [op |-> "serialize_file", kind |-> kind, bytes |-> <<>>]
         /\ fs' = IF kind = "ok"
                  THEN [exists |-> TRUE, content |-> CoreSerialize(p.tensors, o2)]
                  ELSE fs
  /\ pc' = pc
  /\ ForgetDeserialize

\* ------------------------------------------------------------ deserialize

\* MapErr with unwrap() in place of map_err(...)?: the error panics.
MapErrUnwrap(st) == [kind |-> "panic", error |-> st.error, items |-> <<>>]

\* MapErr with a message that leaves the engine's error out.
MapErrGeneric(st) == [kind |-> "err", error |-> "Error", items |-> <<>>]

\* MapErr with unwrap_or_default() in place of map_err(...)?: the error is
\* dropped and the call goes on with no tensors.
MapErrSwallow(st) == [kind |-> "ok", error |-> "", items |-> <<>>]

\* map_err(...)? (lib.rs:71-73): the engine's error, Debug-formatted into
\* the message of a PyException that the call returns.
MapErr(st) == [kind |-> "err", error |-> st.error, items |-> <<>>]

\* deserialize(py, bytes) up to its loop (lib.rs:69-74): the engine parses
\* and validates the buffer; an error returns at once, otherwise `items`
\* starts empty and the loop is entered.
DeserializeStart(b, s, k) ==
  /\ pc = "idle"
  /\ LET st == CoreDeserialize(b, k)
     IN  /\ bytes' = b
         /\ src' = s
         /\ safetensor' = st
         /\ items' = <<>>
         /\ IF st.kind = "err"
            THEN /\ result' = MapErr(st)
                 /\ pending' = <<>>
                 /\ pc' = "idle"
            ELSE /\ result' = NoResult
                 /\ pending' = st.tensors
                 /\ pc' = "loop"
  /\ UNCHANGED serVars

\* deserialize of the bytes serialize returned.
Deserialize(k) ==
  /\ out.op = "serialize"
  /\ out.kind = "ok"
  /\ DeserializeStart(out.bytes, "out", k)

\* deserialize_file(py, filename) (lib.rs:92-100): File::open's error is
\* returned by `?`; otherwise the mapped file is deserialized.
DeserializeFile(filename, k) ==
  IF Reachable(filename) /\ fs.exists
  THEN DeserializeStart(fs.content, "file", k)
  ELSE /\ pc = "idle"
       /\ bytes' = <<>>
       /\ src' = "file"
       /\ safetensor' = NoSafetensor
       /\ pending' = <<>>
       /\ items' = <<>>
       /\ result' = [kind |-> "err", error |-> "IOError", items |-> <<>>]
       /\ pc' = pc
       /\ UNCHANGED serVars

\* One turn of deserialize's loop (lib.rs:76-88).
DeserializeStep ==
  /\ pc = "loop"
  /\ pending # <<>>
  /\ items' = Append(items, Item(Head(pending)))
  /\ pending' = Tail(pending)
  /\ UNCHANGED <<pc, bytes, src, safetensor, result>>
  /\ UNCHANGED serVars

\* Ok(items) (lib.rs:89).
DeserializeReturn ==
  /\ pc = "loop"
  /\ pending = <<>>
  /\ result' = [kind |-> "ok", error |-> "", items |-> items]
  /\ pc' = "idle"
  /\ UNCHANGED <<bytes, src, safetensor, pending, items>>
  /\ UNCHANGED serVars

\* ---------------------------------------------------- hostile byte buffers

\* Entries of hostile headers.
FuzzShapes == {<<>>, <<2>>, <<-1>>}

FuzzDtypes == {"F32", "F64", "C64"}

FuzzRanges == {<<0, 4>>, <<0, 8>>, <<4, 8>>, <<4, 9>>, <<8, 4>>}

\* Header units of hostile buffers: packed entries, and a plain byte.
FuzzUnits ==
  {EncodeEntry([name |-> n, dtype |-> d, shape |-> s, start |-> r[1], end |-> r[2]]) :
     n \in Names, d \in FuzzDtypes, s \in FuzzShapes, r \in FuzzRanges}
  \cup {7}

FuzzHeaders == {<<>>} \cup {<<u>> : u \in FuzzUnits} \cup {<<u, v>> : u, v \in FuzzUnits}

FuzzDataLens == {0, 4, 8, 9}

\* Declared header lengths of hostile buffers: the header's own, one less,
\* one more.
FuzzDeclared(h) == {n \in {Len(h) - 1, Len(h), Len(h) + 1} : n >= 0}

\* A prefix whose value is far beyond any buffer.
HugePrefix == <<0, 0, 0, 0, 1, 0, 0, 0>>

\* A hostile buffer: a prefix, a header, a data section of l bytes.
FuzzBuffer(prefix, h, l) == prefix \o h \o DataFor("a", l)

\* deserialize of a buffer of the caller's making, the first call of a
\* session: deserialize keeps nothing from one call to the next.
DeserializeFuzz(b, k) == DeserializeStart(b, "fuzz", k)

\* No deserialize call has been made yet.
Fresh == src = "none"

\* ------------------------------------------------------- specifications

Next ==
  \/ \E c \in SessionDicts : \E o1, o2 \in Orders(DOMAIN c[2]) :
       Serialize(c[2], c[1], o1, o2)
  \/ \E c \in SessionDicts, f \in Filenames : \E o1, o2 \in Orders(DOMAIN c[2]) :
       SerializeFile(c[2], c[1], f, o1, o2)
  \/ \E k \in OverrunKinds : Deserialize(k)
  \/ \E f \in Filenames, k \in OverrunKinds : DeserializeFile(f, k)
  \/ DeserializeStep
  \/ DeserializeReturn

\* A session of serialize, serialize_file, deserialize and deserialize_file.
Spec == Init /\ [][Next]_vars

FuzzNext ==
  \/ /\ Fresh
     /\ \E h \in FuzzHeaders, l \in FuzzDataLens, k \in OverrunKinds :
          \E n \in FuzzDeclared(h) : DeserializeFuzz(FuzzBuffer(LEBytes(n, 8), h, l), k)
  \/ /\ Fresh
     /\ \E h \in {g \in FuzzHeaders : Len(g) <= 1}, l \in FuzzDataLens, k \in OverrunKinds :
          DeserializeFuzz(FuzzBuffer(HugePrefix, h, l), k)
  \/ /\ Fresh
     /\ \E m \in 0..7, n \in 0..1, k \in OverrunKinds :
          DeserializeFuzz(SubSeq(LEBytes(n, 8), 1, m), k)
  \/ DeserializeStep
  \/ DeserializeReturn

\* deserialize over hostile buffers.
FuzzSpec == Init /\ [][FuzzNext]_vars

\* ------------------------------------------------------------------ claims

\* A deserialize call has returned.
Returned == pc = "idle" /\ src # "none"

\* The engine was handed a buffer by the last deserialize call.
EngineCalled == safetensor.kind # "none"

\* Every tensor prepare built is valid.
ValidTensors ==
  \A n \in DOMAIN tensors :
    Len(tensors[n].data) = ElementCount(tensors[n].shape) * ByteWidth(tensors[n].dtype)

\* The buffer last deserialized is what serialize or serialize_file made
\* of the current, valid tensors.
RoundTripCase ==
  /\ Returned
  /\ EngineCalled
  /\ src \in {"out", "file"}
  /\ dict_src = "caller"
  /\ out.kind = "ok"
  /\ ValidTensors

\* C1 (round trip): deserializing the bytes serialize produced from valid
\* tensors succeeds and returns exactly the tensors' names and, under each
\* name, the same dtype, the same shape and the same bytes.
C1_RoundTrip ==
  RoundTripCase =>
    /\ result.kind = "ok"
    /\ Len(result.items) = Cardinality(DOMAIN tensors)
    /\ {result.items[i].name : i \in 1..Len(result.items)} = DOMAIN tensors
    /\ \A i \in 1..Len(result.items) :
         LET it == result.items[i]
         IN  /\ it.name \in DOMAIN tensors
             /\ \E d \in Dtype : DebugName(d) = it.dtype /\ d = tensors[it.name].dtype
             /\ it.shape = tensors[it.name].shape
             /\ it.data = tensors[it.name].data

\* Two tensors of different dtypes, the first of rank 1 with data, read back
\* from the file serialize_file wrote.
C1_Witness ==
  /\ RoundTripCase
  /\ src = "file"
  /\ Len(result.items) = 2
  /\ result.items[1].dtype # result.items[2].dtype
  /\ Len(result.items[1].data) = 8
  /\ Len(result.items[2].shape) = 1

\* One tensor of rank 2 with distinct extents, read back from serialize's
\* bytes.
C1_WitnessRank2 ==
  /\ RoundTripCase
  /\ src = "out"
  /\ Len(result.items) = 1
  /\ result.items[1].shape = <<1, 2>>

\* The declared header length of a buffer of at least 8 units.
Declared(b) == FromLE(SubSeq(b, 1, 8))

\* The buffer's header can be read: the prefix is there, the declared
\* length fits, and every unit is a packed entry.
HeaderParses(b) ==
  /\ Len(b) >= 8
  /\ Declared(b) <= Len(b) - 8
  /\ \A i \in 1..Declared(b) : WellFormedUnit(b[8 + i])

\* The entries of a buffer whose header can be read.
EntriesOf(b) == [i \in 1..Declared(b) |-> DecodeEntry(b[8 + i])]

\* The length of the data section of a buffer whose header can be read.
DataLenOf(b) == Len(b) - 8 - Declared(b)

\* The entry's dtype is registered and its shape has no negative extent, so
\* that product(shape) * byte_width(dtype) is defined.
Sized(e) ==
  /\ e.dtype \in {"F32", "F64", "I32"}
  /\ \A i \in 1..Len(e.shape) : e.shape[i] >= 0

\* product(shape) * byte_width(dtype) of a sized entry.
SizeOf(e) ==
  ElementCount(e.shape) * (IF e.dtype = "F64" THEN 8 ELSE 4)

\* The entry's range lies in a data section of dataLen bytes.
InRange(e, dataLen) == 0 <= e.start /\ e.start <= e.end /\ e.end <= dataLen

\* The entry passes every per-entry requirement of the format.
EntryOk(e, dataLen) == Sized(e) /\ InRange(e, dataLen) /\ e.end - e.start = SizeOf(e)

\* C2 (central safety contract): on every input buffer deserialize neither
\* panics nor reads out of bounds: a call that has returned gave a
\* structured error of a known kind or succeeded, and every tensor the
\* engine hands out has a range 0 <= start <= end <= len - 8 - N whose bytes
\* are the buffer's bytes at that range.
C2_Safety ==
  /\ result.kind # "panic"
  /\ Returned => result.kind \in {"ok", "err"}
  /\ (Returned /\ EngineCalled /\ result.kind = "err") => result.error \in ErrorKinds
  /\ (EngineCalled /\ safetensor.kind = "ok") =>
       \A i \in 1..Len(safetensor.tensors) :
         LET v == safetensor.tensors[i]
         IN  /\ 0 <= v.start /\ v.start <= v.end
             /\ v.end <= Len(bytes) - 8 - safetensor.n
             /\ Len(v.data) = v.end - v.start
             /\ \A j \in 1..Len(v.data) : v.data[j] = bytes[8 + safetensor.n + v.start + j]

\* A hostile buffer whose header parses and holds an entry ending past the
\* data section was rejected.
C2_Witness ==
  /\ Returned
  /\ src = "fuzz"
  /\ HeaderParses(bytes)
  /\ \E i \in 1..Declared(bytes) : EntriesOf(bytes)[i].end > DataLenOf(bytes)
  /\ result.kind = "err"

\* The header parses and holds an entry whose range length is not
\* product(shape) * byte_width(dtype).
HasSizeMismatch(b) ==
  /\ HeaderParses(b)
  /\ \E i \in 1..Declared(b) :
       Sized(EntriesOf(b)[i])
       /\ EntriesOf(b)[i].end - EntriesOf(b)[i].start # SizeOf(EntriesOf(b)[i])

\* Names are unique, and the first entry that fails a requirement fails
\* only the size requirement.
MismatchComesFirst(b) ==
  /\ \A i, j \in 1..Declared(b) :
       EntriesOf(b)[i].name = EntriesOf(b)[j].name => i = j
  /\ \E i \in 1..Declared(b) :
       /\ Sized(EntriesOf(b)[i])
       /\ InRange(EntriesOf(b)[i], DataLenOf(b))
       /\ EntriesOf(b)[i].end - EntriesOf(b)[i].start # SizeOf(EntriesOf(b)[i])
       /\ \A j \in 1..(i - 1) : EntryOk(EntriesOf(b)[j], DataLenOf(b))

CutShort(b) == Len(b) < 8 \/ Len(b) < 8 + Declared(b)

SomeEntryInvalid(b) ==
  /\ HeaderParses(b)
  /\ \E i \in 1..Declared(b) : ~EntryOk(EntriesOf(b)[i], DataLenOf(b))

\* C8 (all or nothing): a tensor is visited, pushed or returned only once
\* the whole header has been validated, and a buffer with any invalid
\* entry makes the call fail as a whole with no tensor exposed.
C8_AllOrNothing ==
  /\ (pc = "loop" \/ items # <<>> \/ result.items # <<>> \/ pending # <<>>) =>
       /\ safetensor.kind = "ok"
       /\ HeaderParses(bytes)
       /\ ~SomeEntryInvalid(bytes)
  /\ (Returned /\ SomeEntryInvalid(bytes)) =>
       /\ result.kind = "err"
       /\ result.items = <<>>
       /\ items = <<>>

\* A buffer of two entries, the first valid and the second not, was
\* rejected with nothing exposed.
C8_Witness ==
  /\ Returned
  /\ src = "fuzz"
  /\ SomeEntryInvalid(bytes)
  /\ Declared(bytes) = 2
  /\ EntryOk(EntriesOf(bytes)[1], DataLenOf(bytes))
  /\ result.kind = "err"
  /\ items = <<>>

\* C3 (determinism): two serialize calls on the same tensor dictionary
\* return the same bytes: the same header, the same data_offsets under
\* every name, the same data section.
C3_Determinism ==
  [][(/\ tensor_dict' = tensor_dict
      /\ out.op = "serialize" /\ out.kind = "ok"
      /\ out'.op = "serialize" /\ out'.kind = "ok")
     => out'.bytes = out.bytes]_vars

\* C6 (structured serialize-side failure): no serialize or serialize_file
\* call ends in a panic, and a description naming a dtype outside the
\* supported set makes the call return the UnsupportedDtype error.
C6_StructuredFailure ==
  /\ out.kind # "panic"
  /\ ((\E n \in DOMAIN tensor_dict :
         /\ "dtype" \in tensor_dict[n].keys
         /\ tensor_dict[n].dtype \notin {"float32", "float64", "int32"})
      /\ out.kind # "pyerr")
     => out.kind = "UnsupportedDtype"

\* C7 (Tensor Descriptor invariant): every descriptor prepare builds has
\* len(data) = element_count(shape) * byte_width(dtype), the element count
\* of the empty shape being 1.
C7_DescriptorInvariant ==
  \A n \in DOMAIN tensors :
    LET t == tensors[n]
    IN  Len(t.data) = (IF t.shape = <<>> THEN 1 ELSE ElementCount(t.shape))
                        * ByteWidth(t.dtype)

\* The bytes the last successful call wrote: returned or put in the file.
Written == IF out.op = "serialize" THEN out.bytes ELSE fs.content

\* C9 (serialized layout): in what serialize and serialize_file write, the
\* ranges tile the data section in the order of writing: the first starts
\* at 0, each next starts where the previous ends, each is as long as
\* element_count(shape) * byte_width(dtype), the last ends at the end of the
\* data section, and the bytes at each range are that tensor's data.
C9_Layout ==
  out.kind = "ok" =>
    LET b == Written
        n == Len(order)
        e(i) == DecodeEntry(b[8 + i])
    IN  /\ Len(b) >= 8 + n
        /\ Declared(b) = n
        /\ \A i \in 1..n :
             LET t == tensors[order[i]]
             IN  /\ e(i).name = order[i]
                 /\ e(i).start = (IF i = 1 THEN 0 ELSE e(i - 1).end)
                 /\ e(i).end - e(i).start = ElementCount(t.shape) * ByteWidth(t.dtype)
                 /\ Len(t.data) = e(i).end - e(i).start
                 /\ 8 + n + e(i).end <= Len(b)
                 /\ \A j \in 1..Len(t.data) : b[8 + n + e(i).start + j] = t.data[j]
        /\ (IF n = 0 THEN 0 ELSE e(n).end) = Len(b) - 8 - n

\* C10 (dtype name symmetry): the dtype name deserialize emits for a tensor
\* is accepted by prepare's "dtype" key and resolves to the same dtype: a
\* dictionary built from deserialize's result serializes without a panic,
\* every tensor keeping its dtype.
C10_NameSymmetry ==
  dict_src = "items" =>
    /\ out.kind # "panic"
    /\ \A n \in DOMAIN tensor_dict :
         /\ n \in DOMAIN tensors
         /\ DebugName(tensors[n].dtype) = tensor_dict[n].dtype

====
